---- MODULE Spec2Model ----
\* Batch image converter (converter.py): ImageProcessor.run, the per-image
\* geometry of ImageProcessor.process_image, and the float arithmetic both
\* rely on.
EXTENDS Integers, Sequences, FiniteSets, TLC

\* ---------------------------------------------------------------------
\* Bounds of the model
\* ---------------------------------------------------------------------
\* largest source width/height drawn for process_image
MaxSrc == 11

\* largest target width/height drawn for process_image
MaxTgt == 4

\* largest number of directory entries in a run
MaxFiles == 2

\* largest job count for which the progress values are enumerated
MaxTotal == 50

\* largest number of pixels of an image drawn for the flattening step
MaxPixels == 2

\* ---------------------------------------------------------------------
\* IEEE-754 binary64 arithmetic on non-negative values, as CPython's float.
\* A big natural is <<hi, mid, lo>> in base 2^30; a double is
\* [m |-> big, e |-> exponent] with value m * 2^e and 2^52 <= m < 2^53,
\* or m = BZero for 0.0.  Operands are bound once, by value, through
\* singleton sets.
\* ---------------------------------------------------------------------
Only(S) == CHOOSE v \in S : TRUE

LimbBase == 1073741824

HalfLimb == 32768

BZero == <<0, 0, 0>>

BOne == <<0, 0, 1>>

BFromInt(n) == <<0, 0, n>>

BIsZero(x) == x = BZero

BAdd(a, b) ==
    Only({ LET s3 == x[3] + y[3]
               s2 == x[2] + y[2] + (s3 \div LimbBase)
               s1 == x[1] + y[1] + (s2 \div LimbBase)
           IN  <<s1, s2 % LimbBase, s3 % LimbBase>> : x \in {a}, y \in {b} })

\* a - b for a >= b
BSub(a, b) ==
    Only({ LET d3 == x[3] - y[3]
               b3 == IF d3 < 0 THEN 1 ELSE 0
               d2 == x[2] - y[2] - b3
               b2 == IF d2 < 0 THEN 1 ELSE 0
           IN  <<x[1] - y[1] - b2, d2 + b2 * LimbBase, d3 + b3 * LimbBase>>
           : x \in {a}, y \in {b} })

BLess(a, b) ==
    \E x \in {a}, y \in {b} :
        \/ x[1] < y[1]
        \/ x[1] = y[1] /\ x[2] < y[2]
        \/ x[1] = y[1] /\ x[2] = y[2] /\ x[3] < y[3]

\* a * 2^n, for a result below 2^90
RECURSIVE BShl(_, _)
BShl(a, n) ==
    Only({ IF k >= 30 THEN BShl(<<x[2], x[3], 0>>, k - 30)
           ELSE LET p == 2^k
                    q == 2^(30 - k)
                IN  <<(x[1] % q) * p + (x[2] \div q),
                      (x[2] % q) * p + (x[3] \div q),
                      (x[3] % q) * p>> : x \in {a}, k \in {n} })

\* floor(a / 2^n)
RECURSIVE BShr(_, _)
BShr(a, n) ==
    Only({ IF k >= 30 THEN BShr(<<0, x[1], x[2]>>, k - 30)
           ELSE LET p == 2^k
                    q == 2^(30 - k)
                IN  <<x[1] \div p,
                      (x[1] % p) * q + (x[2] \div p),
                      (x[2] % p) * q + (x[3] \div p)>> : x \in {a}, k \in {n} })

IntBitLen(n) == CHOOSE k \in 0..31 : n < 2^k /\ (k = 0 \/ 2^(k - 1) <= n)

BBitLen(a) ==
    Only({ IF x[1] > 0 THEN 60 + IntBitLen(x[1])
           ELSE IF x[2] > 0 THEN 30 + IntBitLen(x[2])
           ELSE IntBitLen(x[3]) : x \in {a} })

\* a * n for 0 <= n < 2^15, by 15-bit half limbs so that no product overflows
BMulSmall(a, n) ==
    Only({ LET P(limb, half) ==
                   BFromInt((IF half = 0 THEN limb % HalfLimb ELSE limb \div HalfLimb) * c)
           IN  BAdd(BAdd(BAdd(P(x[3], 0), BShl(P(x[3], 1), 15)),
                         BAdd(BShl(P(x[2], 0), 30), BShl(P(x[2], 1), 45))),
                    BAdd(BShl(P(x[1], 0), 60), BShl(P(x[1], 1), 75)))
           : x \in {a}, c \in {n} })

\* a * n for 0 <= n < 2^30
BMulInt(a, n) ==
    Only({ BAdd(BMulSmall(x, c % HalfLimb), BShl(BMulSmall(x, c \div HalfLimb), 15))
           : x \in {a}, c \in {n} })

\* a as an integer, for a < 2^31
BToInt(a) == Only({ x[2] * LimbBase + x[3] : x \in {a} })

FZero == [m |-> BZero, e |-> 0]

\* the k low bits of v are dropped, rounding to nearest, ties to even
RoundBits(v, k, sticky) ==
    Only({ LET low  == BSub(v, BShl(q, k))
               half == BShl(BOne, k - 1)
           IN  IF \/ BLess(half, low)
                  \/ low = half /\ (sticky \/ q[3] % 2 = 1)
               THEN BAdd(q, BOne)
               ELSE q : q \in {BShr(v, k)} })

\* the double nearest to v0 * 2^e0 (plus a sticky remainder below v0's last bit)
FRound(v0, e0, sticky0) ==
    Only({ IF BIsZero(v) THEN FZero
           ELSE Only({ IF k <= 0 THEN [m |-> BShl(v, 0 - k), e |-> e + k]
                       ELSE Only({ IF BBitLen(r) = 54
                                   THEN [m |-> BShr(r, 1), e |-> e + k + 1]
                                   ELSE [m |-> r, e |-> e + k]
                                   : r \in {RoundBits(v, k, sticky)} })
                       : k \in {BBitLen(v) - 53} })
           : v \in {v0}, e \in {e0}, sticky \in {sticky0} })

FFromInt(n) == FRound(BFromInt(n), 0, FALSE)

FLess(a, b) ==
    \E x \in {a}, y \in {b} :
        IF BIsZero(y.m) THEN FALSE
        ELSE IF BIsZero(x.m) THEN TRUE
        ELSE x.e < y.e \/ (x.e = y.e /\ BLess(x.m, y.m))

FLeq(a, b) == ~FLess(b, a)

FMulInt(a, n) == Only({ FRound(BMulInt(x.m, n), x.e, FALSE) : x \in {a} })

\* |a - b|; the operand with the larger exponent is shifted left, so the
\* difference is exact before the single rounding
FAbsDiff(a, b) ==
    Only({ IF BIsZero(x.m) THEN y
           ELSE IF BIsZero(y.m) THEN x
           ELSE Only({ IF BLess(hm, lo.m)
                       THEN FRound(BSub(lo.m, hm), lo.e, FALSE)
                       ELSE FRound(BSub(hm, lo.m), lo.e, FALSE)
                       : lo \in {IF x.e >= y.e THEN y ELSE x},
                         hm \in {IF x.e >= y.e THEN BShl(x.m, x.e - y.e)
                                 ELSE BShl(y.m, y.e - x.e)} })
           : x \in {a}, y \in {b} })

\* one base-256 digit of the long division by the 53-bit mantissa d0: s0 is
\* the quotient so far and the remainder (below d0); the digit is estimated
\* from the leading bits and corrected
DivStep(s0, d0) ==
    Only({ Only({ Only({ Only({ Only({ Only({
        [q |-> BAdd(BShl(s.q, 8), BFromInt(est + up1 + up2)), r |-> rem2]
        : up2 \in {IF BLess(rem1, d) THEN 0 ELSE 1},
          rem2 \in {IF BLess(rem1, d) THEN rem1 ELSE BSub(rem1, d)} })
        : up1 \in {IF BLess(rem0, d) THEN 0 ELSE 1},
          rem1 \in {IF BLess(rem0, d) THEN rem0 ELSE BSub(rem0, d)} })
        : rem0 \in {BSub(big, BMulSmall(d, est))} })
        : est \in {BToInt(BShr(big, 31)) \div (BToInt(BShr(d, 31)) + 1)} })
        : big \in {BShl(s.r, 8)} })
        : s \in {s0}, d \in {d0} })

\* correctly rounded a / b: 57 quotient bits and a sticky remainder
FDiv(a, b) ==
    Only({ IF BIsZero(x.m) THEN FZero
           ELSE Only({ FRound(s.q, x.e - y.e - 56, ~BIsZero(s.r))
                       : s \in {DivStep(DivStep(DivStep(DivStep(DivStep(DivStep(DivStep(
                                   IF BLess(x.m, y.m)
                                   THEN [q |-> BZero, r |-> x.m]
                                   ELSE [q |-> BOne, r |-> BSub(x.m, y.m)],
                                   y.m), y.m), y.m), y.m), y.m), y.m), y.m)} })
           : x \in {a}, y \in {b} })

\* math.floor / int() of a non-negative double below 2^31
FFloor(a) ==
    Only({ IF BIsZero(x.m) THEN 0
           ELSE IF x.e >= 0 THEN BToInt(BShl(x.m, x.e))
           ELSE BToInt(BShr(x.m, 0 - x.e)) : x \in {a} })

\* math.ceil of a non-negative double below 2^31
FCeil(a) ==
    Only({ IF BIsZero(x.m) \/ x.e >= 0 THEN FFloor(x)
           ELSE IF BShl(BShr(x.m, 0 - x.e), 0 - x.e) = x.m THEN FFloor(x)
           ELSE FFloor(x) + 1 : x \in {a} })

\* the double nearest to 0.2: 0x3FC999999999999A
FPointTwo == [m |-> <<0, 6710886, 429496730>>, e |-> 0 - 55]

\* ---------------------------------------------------------------------
\* Pillow: Image.thumbnail(box, LANCZOS) applied to an image of size
\* <<w, h>>; the result is the new size of the image
\* ---------------------------------------------------------------------
Max2(a, b) == IF a >= b THEN a ELSE b

Min2(a, b) == IF a <= b THEN a ELSE b

\* Image.thumbnail's round_aspect for the width:
\* max(min(floor(n), ceil(n), key = |aspect - k / y|), 1) with n = y * aspect
RoundAspectX(aspect0, y0) ==
    Only({ Only({ Only({
        Max2(IF FLeq(FAbsDiff(aspect, FDiv(FFromInt(lo), FFromInt(y))),
                     FAbsDiff(aspect, FDiv(FFromInt(hi), FFromInt(y))))
             THEN lo ELSE hi, 1)
        : lo \in {FFloor(number)}, hi \in {FCeil(number)} })
        : number \in {FMulInt(aspect, y)} })
        : aspect \in {aspect0}, y \in {y0} })

\* Image.thumbnail's round_aspect for the height:
\* max(min(floor(n), ceil(n), key = 0 if k == 0 else |aspect - x / k|), 1)
\* with n = x / aspect
RoundAspectY(aspect0, x0) ==
    Only({ Only({ Only({
        Max2(IF FLeq(IF lo = 0 THEN FZero
                     ELSE FAbsDiff(aspect, FDiv(FFromInt(x), FFromInt(lo))),
                     IF hi = 0 THEN FZero
                     ELSE FAbsDiff(aspect, FDiv(FFromInt(x), FFromInt(hi))))
             THEN lo ELSE hi, 1)
        : lo \in {FFloor(number)}, hi \in {FCeil(number)} })
        : number \in {FDiv(FFromInt(x), aspect)} })
        : aspect \in {aspect0}, x \in {x0} })

\* the size Image.thumbnail scales to when the image exceeds the box
ScaledSize(size, box) ==
    Only({ IF FLeq(aspect, FDiv(FFromInt(x), FFromInt(y)))
           THEN <<RoundAspectX(aspect, y), y>>
           ELSE <<x, RoundAspectY(aspect, x)>>
           : aspect \in {FDiv(FFromInt(size[1]), FFromInt(size[2]))},
             x \in {box[1]}, y \in {box[2]} })

\* variant: an image that exceeds the box is stretched to the box
ThumbnailFillsBox(size, box) ==
    IF box[1] >= size[1] /\ box[2] >= size[2] THEN size ELSE box

\* variant: the early return for images already inside the box is missing
ThumbnailAlwaysScales(size, box) == ScaledSize(size, box)

\* Image.thumbnail(box): the size is kept when the image fits the box
Thumbnail(size, box) ==
    IF box[1] >= size[1] /\ box[2] >= size[2] THEN size ELSE ScaledSize(size, box)

\* ---------------------------------------------------------------------
\* ImageProcessor.process_image, from the decoded RGB image of size src to
\* the image handed to save()
\* ---------------------------------------------------------------------
Modes == {"fit", "crop", "auto"}

\* abs(image_ratio - target_ratio) / target_ratio < 0.2
AutoPicksCrop(src, target) ==
    \E target_ratio \in {FDiv(FFromInt(target[1]), FFromInt(target[2]))},
       image_ratio  \in {FDiv(FFromInt(src[1]), FFromInt(src[2]))} :
        FLess(FDiv(FAbsDiff(image_ratio, target_ratio), target_ratio), FPointTwo)

ActualCropMode(src, target, crop_mode) ==
    IF crop_mode = "auto"
    THEN IF AutoPicksCrop(src, target) THEN "crop" ELSE "fit"
    ELSE crop_mode

\* variant: right and bottom are not limited to the image
CropBoxUnclipped(img, target) ==
    Only({ <<left, top, left + target[1], top + target[2]>>
           : left \in {Max2(0, (img[1] - target[1]) \div 2)},
             top  \in {Max2(0, (img[2] - target[2]) \div 2)} })

\* left, top, right, bottom of the centred crop rectangle
CropBox(img, target) ==
    Only({ <<left, top, Min2(img[1], left + target[1]), Min2(img[2], top + target[2])>>
           : left \in {Max2(0, (img[1] - target[1]) \div 2)},
             top  \in {Max2(0, (img[2] - target[2]) \div 2)} })

\* the crop path up to img.crop(): thumbnail to twice the target, centred box
CropStage(src, target) ==
    Only({ Only({ [thumb |-> thumb, box |-> box,
                   cropped |-> <<box[3] - box[1], box[4] - box[2]>>]
                  : box \in {CropBox(thumb, target)} })
           : thumb \in {Thumbnail(src, <<target[1] * 2, target[2] * 2>>)} })

\* variant: the final resize of the crop path is missing
CropPathNoResize(src, target) ==
    Only({ [mode |-> "crop", src |-> src, thumb |-> c.thumb, box |-> c.box,
            cropped |-> c.cropped, resized |-> FALSE, out |-> c.cropped]
           : c \in {CropStage(src, target)} })

\* variant: the final resize goes to the doubled box of the thumbnail step
CropPathResizeToBox(src, target) ==
    Only({ [mode |-> "crop", src |-> src, thumb |-> c.thumb, box |-> c.box,
            cropped |-> c.cropped, resized |-> c.cropped # target,
            out |-> IF c.cropped # target
                    THEN <<target[1] * 2, target[2] * 2>> ELSE c.cropped]
           : c \in {CropStage(src, target)} })

\* crop mode: the cropped image is resized when its size is not the target
CropPath(src, target) ==
    Only({ [mode |-> "crop", src |-> src, thumb |-> c.thumb, box |-> c.box,
            cropped |-> c.cropped, resized |-> c.cropped # target,
            out |-> IF c.cropped # target THEN target ELSE c.cropped]
           : c \in {CropStage(src, target)} })

\* variant: fit mode shrinks into the doubled box of the crop path
FitPathDoubleBox(src, target) ==
    Only({ [mode |-> "fit", src |-> src, thumb |-> thumb,
            offset |-> <<(target[1] - thumb[1]) \div 2, (target[2] - thumb[2]) \div 2>>,
            out |-> target]
           : thumb \in {Thumbnail(src, <<target[1] * 2, target[2] * 2>>)} })

\* fit mode: thumbnail to the target, pasted centred on a target-size canvas
FitPath(src, target) ==
    Only({ [mode |-> "fit", src |-> src, thumb |-> thumb,
            offset |-> <<(target[1] - thumb[1]) \div 2, (target[2] - thumb[2]) \div 2>>,
            out |-> target]
           : thumb \in {Thumbnail(src, target)} })

\* pixel (x, y) of the canvas of the fit path: Image.new fills it with the
\* background and paste writes the image where its rectangle covers it
CanvasPixel(fit, x, y) ==
    IF /\ fit.offset[1] <= x /\ x < fit.offset[1] + fit.thumb[1]
       /\ fit.offset[2] <= y /\ y < fit.offset[2] + fit.thumb[2]
    THEN "image"
    ELSE "background"

ProcessImage(src, target, crop_mode) ==
    IF ActualCropMode(src, target, crop_mode) = "crop"
    THEN CropPath(src, target)
    ELSE FitPath(src, target)

\* ---------------------------------------------------------------------
\* ImageProcessor.process_image, the flattening of RGBA, LA and P images
\* onto the background colour.  An image is its mode, its size and its
\* pixels in row order; a P image also has its palette and the alpha its
\* tRNS information gives each palette entry.
\* ---------------------------------------------------------------------
\* Pillow's DIV255: division by 255, rounded, by shifts
Div255(a) == Only({ ((tmp \div 256) + tmp) \div 256 : tmp \in {a + 128} })

\* Pillow's BLEND8: channel src over channel dst under mask value alpha
Blend8(alpha, dst, src) == Div255(dst * (255 - alpha) + src * alpha)

\* Image.new('RGB', size, color)
NewImage(size, color) ==
    [mode |-> "RGB", size |-> size, pixels |-> [k \in 1..(size[1] * size[2]) |-> color]]

\* img.convert('RGBA') of a P image: palette colour and palette alpha
ConvertPToRGBA(img) ==
    [mode |-> "RGBA", size |-> img.size,
     pixels |-> [k \in 1..Len(img.pixels) |->
                    img.palette[img.pixels[k]] \o <<img.alpha[img.pixels[k]]>>]]

\* the last band of an RGBA image: img.split()[-1]
AlphaBand(img) == [k \in 1..Len(img.pixels) |-> img.pixels[k][4]]

\* Image.paste(img, mask = mask) at (0, 0) on an RGB canvas of img's size.
\* Without a mask the pixels are copied: an LA pixel (l, a) is stored as
\* (l, l, l, a) and lands as (l, l, l).  With a mask each channel is blended.
Paste(canvas, img, mask) ==
    [canvas EXCEPT !.pixels =
        [k \in 1..Len(canvas.pixels) |->
            IF mask = <<>>
            THEN IF img.mode = "LA"
                 THEN <<img.pixels[k][1], img.pixels[k][1], img.pixels[k][1]>>
                 ELSE <<img.pixels[k][1], img.pixels[k][2], img.pixels[k][3]>>
            ELSE [c \in 1..3 |-> Blend8(mask[k], canvas.pixels[k][c],
                                        img.pixels[k][c])]]]

\* lines 105-110: the branch for the modes RGBA, LA and P
Flatten(img0, background_color) ==
    Only({ Paste(NewImage(img0.size, background_color), img,
                 IF img.mode = "RGBA" THEN AlphaBand(img) ELSE <<>>)
           : img \in {IF img0.mode = "P" THEN ConvertPToRGBA(img0) ELSE img0} })

\* ---------------------------------------------------------------------
\* Codec registry: get_supported_formats and the extension handling of run
\* ---------------------------------------------------------------------
BaseFormats == {".jpg", ".jpeg", ".png", ".bmp", ".tiff", ".tif", ".webp", ".gif"}

HeifFormats == {".heif", ".heic", ".hif"}

RawFormats == {".cr2", ".cr3", ".nef", ".arw", ".dng", ".raf", ".orf", ".rw2"}

\* variant: the RAW extensions are listed whether or not rawpy was imported
get_supported_formats_always_raw(hasHeif, hasRaw) ==
    BaseFormats \cup (IF hasHeif THEN HeifFormats ELSE {}) \cup RawFormats

get_supported_formats(hasHeif, hasRaw) ==
    BaseFormats \cup (IF hasHeif THEN HeifFormats ELSE {})
                \cup (IF hasRaw THEN RawFormats ELSE {})

\* str.lower() on the extensions that occur in the modelled directories
Lower(ext) ==
    CASE ext = ".JPG" -> ".jpg"
      [] ext = ".PNG" -> ".png"
      [] ext = ".CR2" -> ".cr2"
      [] ext = ".HEIC" -> ".heic"
      [] OTHER -> ext

\* ---------------------------------------------------------------------
\* Directory entries the runs are drawn from.  A file is its stem, its
\* extension, whether it decodes, and the size of the decoded image.
\* ---------------------------------------------------------------------
Catalogue ==
    { [stem |-> "a",     ext |-> ".png",  good |-> TRUE,  size |-> <<1200, 1200>>],
      [stem |-> "a",     ext |-> ".JPG",  good |-> TRUE,  size |-> <<480, 1600>>],
      [stem |-> "bad",   ext |-> ".gif",  good |-> FALSE, size |-> <<1, 1>>],
      [stem |-> "notes", ext |-> ".txt",  good |-> FALSE, size |-> <<1, 1>>],
      [stem |-> "h",     ext |-> ".heic", good |-> TRUE,  size |-> <<100, 100>>],
      [stem |-> "r",     ext |-> ".cr2",  good |-> TRUE,  size |-> <<6000, 4000>>] }

Stems == {f.stem : f \in Catalogue}

\* os.listdir results: sequences of distinct entries, in any order
Listings ==
    UNION { {s \in [1..n -> Catalogue] : \A j, k \in 1..n : j # k => s[j] # s[k]}
            : n \in 0..MaxFiles }

NoFile == [kind |-> "none"]

\* an output file left by an earlier run
OldFile == [kind |-> "old"]

\* ---------------------------------------------------------------------
\* State
\* ---------------------------------------------------------------------
\* the directories the window can name
InputDirs == {"in", "in2"}

OutputDirs == {"out", "out2"}

VARIABLES
    HAS_HEIF, HAS_RAW,      \* module globals set at import
    inputs,                 \* the input directories on disk, by name: kind
                            \* ("missing", "file" or "dir") and os.listdir
    outputs,                \* the output directories, by name: kind ("ok" or
                            \* "uncreatable": makedirs raises) and <stem>.jpg files
    outFiles0,              \* the files of output_dir when the run started (history)
    input_edit, output_edit,    \* the two path fields of the window
    overwrite_check,            \* the overwrite checkbox
    window_crop_mode, window_target_size,   \* ImageConverterUI.crop_mode, .target_size
    buttons,                \* enabled state of start_btn, stop_btn, settings_btn
    input_dir, output_dir, overwrite, crop_mode, target_size,   \* the processor's attributes
    running,                \* self.running
    stopPoint,              \* where run() was when stop() was first called (history)
    prevRun,                \* outcome of the run before this one (history)
    processed_files, failed_files,
    pc,                     \* position of run(): "start", "check" (lines 180 and
                            \* 211), "announce" (183), "job" (185-206),
                            \* "progress" (208-209), "finish" (212), "done"
    image_files, total, i,  \* locals of run(); i is the number of jobs handled
    processed, skipped, failed,
    events,                 \* signals emitted so far
    calls,                  \* process_image invocations so far
    arg, ret                \* input and result of the function under test

windowVars == <<input_edit, output_edit, overwrite_check, window_crop_mode,
                window_target_size, buttons>>

settingVars == <<input_dir, output_dir, overwrite, crop_mode, target_size>>

vars == <<HAS_HEIF, HAS_RAW, inputs, outputs, outFiles0, windowVars, settingVars,
          running, stopPoint, prevRun, processed_files,
          failed_files, pc,
          image_files, total, i, processed, skipped, failed, events, calls,
          arg, ret>>

envVars == <<HAS_HEIF, HAS_RAW, inputs, outFiles0, windowVars, settingVars>>

\* the variables run() and process_image leave alone
fixedVars == <<envVars, stopPoint, prevRun>>

\* what run() finds under self.input_dir and self.output_dir
inputKind == inputs[input_dir].kind

entries == inputs[input_dir].entries

outKind == outputs[output_dir].kind

outFiles == outputs[output_dir].files

None == [kind |-> "none"]

\* the buttons as start_processing leaves them, and as processing_finished
\* and processing_error leave them
ButtonsProcessing == [start_btn |-> FALSE, stop_btn |-> TRUE, settings_btn |-> FALSE]

ButtonsIdle == [start_btn |-> TRUE, stop_btn |-> FALSE, settings_btn |-> TRUE]

\* the frame in portrait and in landscape
TargetSizes == {<<480, 800>>, <<800, 480>>}

\* the second input directory and the second output directory
OtherInput ==
    [kind |-> "dir",
     entries |-> <<[stem |-> "a", ext |-> ".JPG", good |-> TRUE, size |-> <<480, 1600>>],
                   [stem |-> "notes", ext |-> ".txt", good |-> FALSE, size |-> <<1, 1>>]>>]

OtherOutput == [kind |-> "ok", files |-> [s \in Stems |-> NoFile]]

\* ImageProcessor.__init__ and the start of the thread
InitProcessor ==
    /\ running = TRUE
    /\ stopPoint = None
    /\ prevRun = None
    /\ processed_files = <<>>
    /\ failed_files = <<>>
    /\ pc = "start"
    /\ image_files = <<>>
    /\ total = 0
    /\ i = 0
    /\ processed = 0
    /\ skipped = 0
    /\ failed = 0
    /\ events = <<>>
    /\ calls = <<>>

\* start_processing has copied the window's settings to a new processor
\* and started its thread; the directories are whatever the disk holds by
\* the time run() looks at them.  The target is the frame's 480x800, for
\* which auto takes the fit path on every file of the catalogue, so the
\* first run is in fit or crop mode
Init ==
    /\ HAS_HEIF \in BOOLEAN
    /\ HAS_RAW \in BOOLEAN
    /\ input_dir = "in"
    /\ output_dir = "out"
    /\ \E kind \in {"missing", "file", "dir"}, listing \in Listings :
          /\ kind # "dir" => listing = <<>>
          /\ inputs = [d \in InputDirs |->
                          IF d = "in" THEN [kind |-> kind, entries |-> listing]
                          ELSE OtherInput]
    /\ \E kind \in {"ok", "uncreatable"}, files \in [Stems -> {NoFile, OldFile}] :
          /\ \A s \in Stems :
                files[s] # NoFile =>
                   /\ kind = "ok"
                   /\ \E k \in 1..Len(inputs["in"].entries) :
                         inputs["in"].entries[k].stem = s
          /\ outputs = [d \in OutputDirs |->
                           IF d = "out" THEN [kind |-> kind, files |-> files]
                           ELSE OtherOutput]
    /\ outFiles0 = outFiles
    /\ overwrite \in BOOLEAN
    /\ crop_mode \in {"fit", "crop"}
    /\ target_size = <<480, 800>>
    /\ input_edit = input_dir
    /\ output_edit = output_dir
    /\ overwrite_check = overwrite
    /\ window_crop_mode = crop_mode
    /\ window_target_size = target_size
    /\ buttons = ButtonsProcessing
    /\ InitProcessor
    /\ arg = None
    /\ ret = None

\* ---------------------------------------------------------------------
\* ImageProcessor.stop: callable from any thread at any time; it clears
\* the flag, and clearing it again changes nothing
\* ---------------------------------------------------------------------
StopPointNow == [kind |-> "stop", pc |-> pc, job |-> i, events |-> Len(events)]

Stop ==
    /\ running' = FALSE
    /\ stopPoint' = IF running THEN StopPointNow ELSE stopPoint
    /\ UNCHANGED <<envVars, prevRun, outputs, processed_files, failed_files, pc,
                   image_files, total, i, processed, skipped, failed, events,
                   calls, arg, ret>>

\* ---------------------------------------------------------------------
\* ImageProcessor.run.  stop() runs on another thread, so every read of
\* self.running and every emit after which the flag may have changed is a
\* step of its own.
\* ---------------------------------------------------------------------
Emit(ev) == events' = Append(events, ev)

SelectSupported(files, formats) == SelectSeq(files, LAMBDA f : Lower(f.ext) \in formats)

RunNoInputDir ==
    /\ pc = "start"
    /\ inputKind = "missing"
    /\ Emit([sig |-> "error_occurred", kind |-> "no_input_dir"])
    /\ pc' = "done"
    /\ UNCHANGED <<fixedVars, outputs, running, processed_files, failed_files,
                   image_files, total, i, processed, skipped, failed, calls,
                   arg, ret>>

\* os.makedirs or os.listdir raises: caught by the outer handler
RunSetupRaises ==
    /\ pc = "start"
    /\ inputKind # "missing"
    /\ outKind = "uncreatable" \/ inputKind = "file"
    /\ Emit([sig |-> "error_occurred", kind |-> "exception"])
    /\ pc' = "done"
    /\ UNCHANGED <<fixedVars, outputs, running, processed_files, failed_files,
                   image_files, total, i, processed, skipped, failed, calls,
                   arg, ret>>

\* variant: the test for an empty job list is missing
RunNoImagesEntersLoop ==
    /\ pc = "start"
    /\ inputKind = "dir"
    /\ outKind = "ok"
    /\ SelectSupported(entries, get_supported_formats(HAS_HEIF, HAS_RAW)) = <<>>
    /\ pc' = "check"
    /\ UNCHANGED <<fixedVars, outputs, running, processed_files, failed_files,
                   image_files, total, i, processed, skipped, failed, events,
                   calls, arg, ret>>

RunNoImages ==
    /\ pc = "start"
    /\ inputKind = "dir"
    /\ outKind = "ok"
    /\ SelectSupported(entries, get_supported_formats(HAS_HEIF, HAS_RAW)) = <<>>
    /\ Emit([sig |-> "error_occurred", kind |-> "no_images"])
    /\ pc' = "done"
    /\ UNCHANGED <<fixedVars, outputs, running, processed_files, failed_files,
                   image_files, total, i, processed, skipped, failed, calls,
                   arg, ret>>

\* variant: the counters are not set to 0 before the loop
RunEnumerateKeepsCounters ==
    /\ pc = "start"
    /\ inputKind = "dir"
    /\ outKind = "ok"
    /\ LET found == SelectSupported(entries, get_supported_formats(HAS_HEIF, HAS_RAW))
       IN  /\ found # <<>>
           /\ image_files' = found
           /\ total' = Len(found)
    /\ UNCHANGED <<processed, skipped, failed>>
    /\ i' = 0
    /\ pc' = "check"
    /\ UNCHANGED <<fixedVars, outputs, running, processed_files, failed_files,
                   events, calls, arg, ret>>

\* makedirs and listdir succeed and the job list is not empty: the counters
\* are set to 0 and the loop is entered
RunEnumerate ==
    /\ pc = "start"
    /\ inputKind = "dir"
    /\ outKind = "ok"
    /\ LET found == SelectSupported(entries, get_supported_formats(HAS_HEIF, HAS_RAW))
       IN  /\ found # <<>>
           /\ image_files' = found
           /\ total' = Len(found)
    /\ processed' = 0
    /\ skipped' = 0
    /\ failed' = 0
    /\ i' = 0
    /\ pc' = "check"
    /\ UNCHANGED <<fixedVars, outputs, running, processed_files, failed_files,
                   events, calls, arg, ret>>

\* variant: the test of self.running after the loop is missing
LoopCancelledReportsSuccess ==
    /\ pc = "check"
    /\ i < total
    /\ ~running
    /\ pc' = "finish"
    /\ UNCHANGED <<fixedVars, outputs, running, processed_files, failed_files,
                   image_files, total, i, processed, skipped, failed, events,
                   calls, arg, ret>>

\* line 180 reads self.running False: break.  The flag is never set back to
\* True, so the test of line 211 finds it False as well and run() returns
LoopCancelled ==
    /\ pc = "check"
    /\ i < total
    /\ ~running
    /\ pc' = "done"
    /\ UNCHANGED <<fixedVars, outputs, running, processed_files, failed_files,
                   image_files, total, i, processed, skipped, failed, events,
                   calls, arg, ret>>

\* variant: the loop does not test self.running before a job
BeginJobIgnoresStop ==
    /\ pc = "check"
    /\ i < total
    /\ pc' = "announce"
    /\ UNCHANGED <<fixedVars, outputs, running, processed_files, failed_files,
                   image_files, total, i, processed, skipped, failed, events,
                   calls, arg, ret>>

\* line 180 reads self.running True: the loop body is entered
BeginJob ==
    /\ pc = "check"
    /\ i < total
    /\ running
    /\ pc' = "announce"
    /\ UNCHANGED <<fixedVars, outputs, running, processed_files, failed_files,
                   image_files, total, i, processed, skipped, failed, events,
                   calls, arg, ret>>

\* line 183: the job is announced, whatever self.running is by now
Announce ==
    /\ pc = "announce"
    /\ Emit([sig |-> "processing_file", job |-> i, file |-> image_files[i + 1]])
    /\ pc' = "job"
    /\ UNCHANGED <<fixedVars, outputs, running, processed_files, failed_files,
                   image_files, total, i, processed, skipped, failed, calls,
                   arg, ret>>

\* int((i + 1) / total * 100)
Progress(index, count) == FFloor(FMulInt(FDiv(FFromInt(index + 1), FFromInt(count)), 100))

LogEvent(kind) == [sig |-> "log_message", kind |-> kind, job |-> i, file |-> image_files[i + 1]]

ProgressEvent == [sig |-> "progress", job |-> i, value |-> Progress(i, total)]

\* variant: the existence test sees only the files present before the run
OutputExistedBeforeRun(f) == outFiles0[f.stem] # NoFile

\* os.path.exists(output_path), evaluated when the job is reached
OutputExists(f) == outFiles[f.stem] # NoFile

\* the file process_image saves for f
Saved(f) ==
    [outputs EXCEPT ![output_dir].files[f.stem] =
        [kind |-> "jpeg", file |-> f,
         image |-> ProcessImage(f.size, target_size, crop_mode)]]

\* variant: the existence test comes after the conversion
SkipJobAfterConverting ==
    /\ pc = "job"
    /\ LET f == image_files[i + 1]
       IN  /\ OutputExists(f) /\ ~overwrite
           /\ calls' = Append(calls, [job |-> i, file |-> f])
           /\ Emit(LogEvent("skipped"))
           /\ skipped' = skipped + 1
    /\ pc' = "progress"
    /\ UNCHANGED <<fixedVars, outputs, running, processed_files, failed_files,
                   image_files, total, i, processed, failed, arg, ret>>

\* variant: an existing output is skipped whatever the overwrite flag is
SkipJobIgnoresOverwrite ==
    /\ pc = "job"
    /\ LET f == image_files[i + 1]
       IN  /\ OutputExists(f)
           /\ Emit(LogEvent("skipped"))
           /\ skipped' = skipped + 1
    /\ pc' = "progress"
    /\ UNCHANGED <<fixedVars, outputs, running, processed_files, failed_files,
                   image_files, total, i, processed, failed, calls, arg, ret>>

\* lines 185-192: the output exists and overwrite is off, the job is
\* skipped and logged
SkipJob ==
    /\ pc = "job"
    /\ LET f == image_files[i + 1]
       IN  /\ OutputExists(f) /\ ~overwrite
           /\ Emit(LogEvent("skipped"))
           /\ skipped' = skipped + 1
    /\ pc' = "progress"
    /\ UNCHANGED <<fixedVars, outputs, running, processed_files, failed_files,
                   image_files, total, i, processed, failed, calls, arg, ret>>

\* variant: the converted file is not appended to self.processed_files
ConvertJobWithoutRecord ==
    /\ pc = "job"
    /\ LET f == image_files[i + 1]
       IN  /\ ~(OutputExists(f) /\ ~overwrite)
           /\ f.good
           /\ calls' = Append(calls, [job |-> i, file |-> f])
           /\ outputs' = Saved(f)
           /\ processed' = processed + 1
           /\ processed_files' = processed_files
           /\ Emit(LogEvent("processed"))
    /\ pc' = "progress"
    /\ UNCHANGED <<fixedVars, running, failed_files, image_files, total, i,
                   skipped, failed, arg, ret>>

\* variant: the conversion is not logged
ConvertJobWithoutLog ==
    /\ pc = "job"
    /\ LET f == image_files[i + 1]
       IN  /\ ~(OutputExists(f) /\ ~overwrite)
           /\ f.good
           /\ calls' = Append(calls, [job |-> i, file |-> f])
           /\ outputs' = Saved(f)
           /\ processed' = processed + 1
           /\ processed_files' = Append(processed_files, f)
           /\ events' = events
    /\ pc' = "progress"
    /\ UNCHANGED <<fixedVars, running, failed_files, image_files, total, i,
                   skipped, failed, arg, ret>>

\* lines 185-198: process_image returns True, the composed image is saved,
\* counted, recorded and logged
ConvertJob ==
    /\ pc = "job"
    /\ LET f == image_files[i + 1]
       IN  /\ ~(OutputExists(f) /\ ~overwrite)
           /\ f.good
           /\ calls' = Append(calls, [job |-> i, file |-> f])
           /\ outputs' = Saved(f)
           /\ processed' = processed + 1
           /\ processed_files' = Append(processed_files, f)
           /\ Emit(LogEvent("processed"))
    /\ pc' = "progress"
    /\ UNCHANGED <<fixedVars, running, failed_files, image_files, total, i,
                   skipped, failed, arg, ret>>

\* variant: the inner handler is missing, the exception ends the run
FailJobAbortsRun ==
    /\ pc = "job"
    /\ LET f == image_files[i + 1]
       IN  /\ ~(OutputExists(f) /\ ~overwrite)
           /\ ~f.good
           /\ calls' = Append(calls, [job |-> i, file |-> f])
           /\ Emit([sig |-> "error_occurred", kind |-> "exception"])
    /\ pc' = "done"
    /\ UNCHANGED <<fixedVars, outputs, running, processed_files, failed_files,
                   image_files, total, i, processed, skipped, failed, arg, ret>>

\* variant: the inner handler also reports the failure as a run-level error
FailJobReportsRunError ==
    /\ pc = "job"
    /\ LET f == image_files[i + 1]
       IN  /\ ~(OutputExists(f) /\ ~overwrite)
           /\ ~f.good
           /\ calls' = Append(calls, [job |-> i, file |-> f])
           /\ failed' = failed + 1
           /\ failed_files' = Append(failed_files, f)
           /\ events' = events \o <<LogEvent("error"),
                                    [sig |-> "error_occurred", kind |-> "exception"]>>
    /\ pc' = "progress"
    /\ UNCHANGED <<fixedVars, outputs, running, processed_files, image_files,
                   total, i, processed, skipped, arg, ret>>

\* variant: the handler of a failed job does not add to failed
FailJobUncounted ==
    /\ pc = "job"
    /\ LET f == image_files[i + 1]
       IN  /\ ~(OutputExists(f) /\ ~overwrite)
           /\ ~f.good
           /\ calls' = Append(calls, [job |-> i, file |-> f])
           /\ failed' = failed
           /\ failed_files' = Append(failed_files, f)
           /\ Emit(LogEvent("error"))
    /\ pc' = "progress"
    /\ UNCHANGED <<fixedVars, outputs, running, processed_files, image_files,
                   total, i, processed, skipped, arg, ret>>

\* lines 185-206: process_image raises, nothing is saved; the inner handler
\* counts, records and logs the failure
FailJob ==
    /\ pc = "job"
    /\ LET f == image_files[i + 1]
       IN  /\ ~(OutputExists(f) /\ ~overwrite)
           /\ ~f.good
           /\ calls' = Append(calls, [job |-> i, file |-> f])
           /\ failed' = failed + 1
           /\ failed_files' = Append(failed_files, f)
           /\ Emit(LogEvent("error"))
    /\ pc' = "progress"
    /\ UNCHANGED <<fixedVars, outputs, running, processed_files, image_files,
                   total, i, processed, skipped, arg, ret>>

\* lines 208-209: the progress value of the job, and on to the next file
ReportProgress ==
    /\ pc = "progress"
    /\ Emit(ProgressEvent)
    /\ i' = i + 1
    /\ pc' = "check"
    /\ UNCHANGED <<fixedVars, outputs, running, processed_files, failed_files,
                   image_files, total, processed, skipped, failed, calls,
                   arg, ret>>

\* variant: finished_success is emitted whatever self.running is
LoopExitAlwaysReports ==
    /\ pc = "check"
    /\ i = total
    /\ pc' = "finish"
    /\ UNCHANGED <<fixedVars, outputs, running, processed_files, failed_files,
                   image_files, total, i, processed, skipped, failed, events,
                   calls, arg, ret>>

\* the loop is exhausted and line 211 reads self.running
LoopExit ==
    /\ pc = "check"
    /\ i = total
    /\ pc' = IF running THEN "finish" ELSE "done"
    /\ UNCHANGED <<fixedVars, outputs, running, processed_files, failed_files,
                   image_files, total, i, processed, skipped, failed, events,
                   calls, arg, ret>>

\* line 212, after the test of line 211 has passed
Finish ==
    /\ pc = "finish"
    /\ Emit([sig |-> "finished_success", processed |-> processed,
             skipped |-> skipped, failed |-> failed])
    /\ pc' = "done"
    /\ UNCHANGED <<fixedVars, outputs, running, processed_files, failed_files,
                   image_files, total, i, processed, skipped, failed, calls,
                   arg, ret>>

\* what the ImageProcessor object still holds once run() has returned: the
\* attributes processed_files and failed_files, one entry per converted and
\* per failed job; processed, skipped and failed themselves are locals of
\* run() and there is no attribute for the skipped jobs
RetainedCounts ==
    [processed |-> Len(processed_files), failed |-> Len(failed_files)]

\* the steps of the thread that executes run()
RunStep ==
    \/ RunNoInputDir
    \/ RunSetupRaises
    \/ RunNoImages
    \/ RunEnumerate
    \/ LoopCancelled
    \/ BeginJob
    \/ Announce
    \/ SkipJob
    \/ ConvertJob
    \/ FailJob
    \/ ReportProgress
    \/ LoopExit
    \/ Finish

Next ==
    \/ Stop
    \/ RunNoInputDir
    \/ RunSetupRaises
    \/ RunNoImages
    \/ RunEnumerate
    \/ LoopCancelled
    \/ BeginJob
    \/ Announce
    \/ SkipJob
    \/ ConvertJob
    \/ FailJob
    \/ ReportProgress
    \/ LoopExit
    \/ Finish

Spec == Init /\ [][Next]_vars

\* the thread of run() keeps being scheduled; stop() may or may not come.
\* Both codecs are present, the mode is fit and overwrite is off: none of
\* them plays a part in the scheduling of the loop
InitFair ==
    /\ Init
    /\ HAS_HEIF
    /\ HAS_RAW
    /\ crop_mode = "fit"
    /\ ~overwrite

FairSpec == InitFair /\ [][Next]_vars /\ WF_vars(RunStep)

\* ---------------------------------------------------------------------
\* The window around a run and one rerun.  The user changes the path
\* fields and the overwrite checkbox at any time, the settings while the
\* settings button is enabled; processing_finished and processing_error
\* enable the start button again; start_processing copies the fields and
\* settings to a new ImageProcessor.  One rerun is followed: once it is
\* started (prevRun is set) the window's fields no longer matter and
\* their actions are left out.  The locals of the returned run() are
\* dead; they keep their last values here until the new run() assigns them.
\* ---------------------------------------------------------------------
\* finished_success was emitted and the window has not handled it yet
ProcessingFinished ==
    /\ ~buttons.start_btn
    /\ \E k \in 1..Len(events) : events[k].sig = "finished_success"
    /\ buttons' = ButtonsIdle
    /\ UNCHANGED <<HAS_HEIF, HAS_RAW, inputs, outputs, outFiles0, input_edit,
                   output_edit, overwrite_check, window_crop_mode,
                   window_target_size, settingVars, running, stopPoint, prevRun,
                   processed_files, failed_files, pc, image_files, total, i,
                   processed, skipped, failed, events, calls, arg, ret>>

\* error_occurred was emitted and the window has not handled it yet
ProcessingError ==
    /\ ~buttons.start_btn
    /\ \E k \in 1..Len(events) : events[k].sig = "error_occurred"
    /\ buttons' = ButtonsIdle
    /\ UNCHANGED <<HAS_HEIF, HAS_RAW, inputs, outputs, outFiles0, input_edit,
                   output_edit, overwrite_check, window_crop_mode,
                   window_target_size, settingVars, running, stopPoint, prevRun,
                   processed_files, failed_files, pc, image_files, total, i,
                   processed, skipped, failed, events, calls, arg, ret>>

\* the stop button: stop() on the current processor
StopProcessing ==
    /\ buttons.stop_btn
    /\ running' = FALSE
    /\ stopPoint' = IF running THEN StopPointNow ELSE stopPoint
    /\ buttons' = [buttons EXCEPT !.stop_btn = FALSE]
    /\ UNCHANGED <<HAS_HEIF, HAS_RAW, inputs, outputs, outFiles0, input_edit,
                   output_edit, overwrite_check, window_crop_mode,
                   window_target_size, settingVars, prevRun,
                   processed_files, failed_files, pc, image_files, total, i,
                   processed, skipped, failed, events, calls, arg, ret>>

\* the input field is an editable line: the user types a path or clears it
EditInput ==
    /\ prevRun = None
    /\ \E text \in InputDirs \cup {""} : input_edit' = text
    /\ UNCHANGED <<HAS_HEIF, HAS_RAW, inputs, outputs, outFiles0,
                   output_edit, overwrite_check, window_crop_mode,
                   window_target_size, buttons, settingVars, running, stopPoint,
                   prevRun, processed_files, failed_files, pc, image_files, total,
                   i, processed, skipped, failed, events, calls, arg, ret>>

\* the output field is an editable line as well
EditOutput ==
    /\ prevRun = None
    /\ \E text \in OutputDirs \cup {""} : output_edit' = text
    /\ UNCHANGED <<HAS_HEIF, HAS_RAW, inputs, outputs, outFiles0,
                   input_edit, overwrite_check, window_crop_mode,
                   window_target_size, buttons, settingVars, running, stopPoint,
                   prevRun, processed_files, failed_files, pc, image_files, total,
                   i, processed, skipped, failed, events, calls, arg, ret>>

\* the dialog returns an existing directory, or nothing when it is cancelled
BrowseInput ==
    /\ prevRun = None
    /\ \E directory \in InputDirs :
          /\ inputs[directory].kind = "dir"
          /\ input_edit' = directory
    /\ UNCHANGED <<HAS_HEIF, HAS_RAW, inputs, outputs, outFiles0,
                   output_edit, overwrite_check, window_crop_mode,
                   window_target_size, buttons, settingVars, running, stopPoint,
                   prevRun, processed_files, failed_files, pc, image_files, total,
                   i, processed, skipped, failed, events, calls, arg, ret>>

BrowseOutput ==
    /\ prevRun = None
    /\ \E directory \in OutputDirs :
          /\ outputs[directory].kind = "ok"
          /\ output_edit' = directory
    /\ UNCHANGED <<HAS_HEIF, HAS_RAW, inputs, outputs, outFiles0,
                   input_edit, overwrite_check, window_crop_mode,
                   window_target_size, buttons, settingVars, running, stopPoint,
                   prevRun, processed_files, failed_files, pc, image_files, total,
                   i, processed, skipped, failed, events, calls, arg, ret>>

\* a click on the overwrite checkbox
ToggleOverwrite ==
    /\ prevRun = None
    /\ overwrite_check' = ~overwrite_check
    /\ UNCHANGED <<HAS_HEIF, HAS_RAW, inputs, outputs, outFiles0,
                   input_edit, output_edit, window_crop_mode,
                   window_target_size, buttons, settingVars, running, stopPoint,
                   prevRun, processed_files, failed_files, pc, image_files, total,
                   i, processed, skipped, failed, events, calls, arg, ret>>

\* a mode button of the settings dialog
SetMode ==
    /\ prevRun = None
    /\ buttons.settings_btn
    /\ \E mode \in Modes : window_crop_mode' = mode
    /\ UNCHANGED <<HAS_HEIF, HAS_RAW, inputs, outputs, outFiles0,
                   input_edit, output_edit, overwrite_check,
                   window_target_size, buttons, settingVars, running, stopPoint,
                   prevRun, processed_files, failed_files, pc, image_files, total,
                   i, processed, skipped, failed, events, calls, arg, ret>>

\* the settings dialog is accepted: the size of the spin boxes and the mode
\* of the checked button, which is the button set_mode checked last
SaveSettings ==
    /\ prevRun = None
    /\ buttons.settings_btn
    /\ \E size \in TargetSizes : window_target_size' = size
    /\ window_crop_mode' = IF window_crop_mode = "auto" THEN "auto"
                           ELSE IF window_crop_mode = "fit" THEN "fit"
                           ELSE "crop"
    /\ UNCHANGED <<HAS_HEIF, HAS_RAW, inputs, outputs, outFiles0,
                   input_edit, output_edit, overwrite_check,
                   buttons, settingVars, running, stopPoint,
                   prevRun, processed_files, failed_files, pc, image_files, total,
                   i, processed, skipped, failed, events, calls, arg, ret>>

\* the settings a run was started with
RunSettings ==
    [input_dir |-> input_dir, output_dir |-> output_dir, overwrite |-> overwrite,
     crop_mode |-> crop_mode, target_size |-> target_size]

\* the start button.  Without a path in either field, or with an input
\* path that does not exist, a message box is shown and nothing changes.
\* One rerun is followed
StartProcessing ==
    /\ buttons.start_btn
    /\ prevRun = None
    /\ input_edit # ""
    /\ inputs[input_edit].kind # "missing"
    /\ output_edit # ""
    /\ prevRun' = [kind |-> "run", outFiles |-> outFiles,
                   counters |-> <<processed, skipped, failed>>,
                   finished |-> \E k \in 1..Len(events) : events[k].sig = "finished_success",
                   settings |-> RunSettings]
    /\ buttons' = ButtonsProcessing
    /\ input_dir' = input_edit
    /\ output_dir' = output_edit
    /\ target_size' = window_target_size
    /\ crop_mode' = window_crop_mode
    /\ overwrite' = overwrite_check
    /\ outFiles0' = outputs[output_edit].files
    /\ running' = TRUE
    /\ stopPoint' = None
    /\ processed_files' = <<>>
    /\ failed_files' = <<>>
    /\ pc' = "start"
    /\ events' = <<>>
    /\ calls' = <<>>
    /\ UNCHANGED <<HAS_HEIF, HAS_RAW, inputs, outputs, input_edit, output_edit,
                   overwrite_check, window_crop_mode, window_target_size,
                   image_files, total, i, processed, skipped, failed, arg, ret>>

NextRepeat ==
    \/ RunStep
    \/ ProcessingFinished
    \/ ProcessingError
    \/ StopProcessing
    \/ BrowseInput
    \/ BrowseOutput
    \/ EditInput
    \/ EditOutput
    \/ ToggleOverwrite
    \/ SetMode
    \/ SaveSettings
    \/ StartProcessing

\* The first run is over listings of the decodable and the undecodable
\* raster files, in fit mode
InitRepeat ==
    /\ Init
    /\ HAS_HEIF
    /\ HAS_RAW
    /\ crop_mode = "fit"
    /\ \A k \in 1..Len(entries) : entries[k].ext \notin {".heic", ".cr2", ".txt"}

SpecRepeat == InitRepeat /\ [][NextRepeat]_vars

\* ---------------------------------------------------------------------
\* process_image on its own: every source size, target size and mode
\* within the bounds
\* ---------------------------------------------------------------------
Sizes(n) == (1..n) \X (1..n)

IdleProcessor ==
    /\ HAS_HEIF = FALSE
    /\ HAS_RAW = FALSE
    /\ input_dir = "in"
    /\ output_dir = "out"
    /\ inputs = [d \in InputDirs |-> [kind |-> "missing", entries |-> <<>>]]
    /\ outputs = [d \in OutputDirs |-> OtherOutput]
    /\ outFiles0 = outFiles
    /\ overwrite = FALSE
    /\ crop_mode = "fit"
    /\ target_size = <<480, 800>>
    /\ input_edit = input_dir
    /\ output_edit = output_dir
    /\ overwrite_check = overwrite
    /\ window_crop_mode = crop_mode
    /\ window_target_size = target_size
    /\ buttons = ButtonsIdle
    /\ InitProcessor

\* two photographs for the frame's own 480x800 target
FramePhotos ==
    { [src |-> <<1200, 1200>>, target |-> <<480, 800>>, mode |-> "fit"],
      [src |-> <<480, 1600>>, target |-> <<480, 800>>, mode |-> "crop"] }

InitImage ==
    /\ IdleProcessor
    /\ arg \in [src : Sizes(MaxSrc), target : Sizes(MaxTgt), mode : Modes] \cup FramePhotos
    /\ ret = None

CallProcessImage ==
    /\ ret = None
    /\ "src" \in DOMAIN arg
    /\ ret' = ProcessImage(arg.src, arg.target, arg.mode)
    /\ UNCHANGED <<fixedVars, outputs, running, processed_files, failed_files,
                   pc, image_files, total, i, processed, skipped, failed,
                   events, calls, arg>>

NextImage == CallProcessImage

SpecImage == InitImage /\ [][NextImage]_vars

\* ---------------------------------------------------------------------
\* The progress values of a run over arg.total jobs: the progress lines
\* of the loop body, job after job
\* ---------------------------------------------------------------------
InitProgress ==
    /\ IdleProcessor
    /\ arg \in [total : 1..MaxTotal, index : {0}]
    /\ ret = <<>>

EmitProgress ==
    /\ "total" \in DOMAIN arg
    /\ arg.index < arg.total
    /\ ret' = Append(ret, Progress(arg.index, arg.total))
    /\ arg' = [arg EXCEPT !.index = arg.index + 1]
    /\ UNCHANGED <<fixedVars, outputs, running, processed_files, failed_files,
                   pc, image_files, total, i, processed, skipped, failed,
                   events, calls>>

NextProgress == EmitProgress

SpecProgress == InitProgress /\ [][NextProgress]_vars

\* ---------------------------------------------------------------------
\* The flattening step on its own: every image of at most MaxPixels pixels
\* over a few colours and alpha values, and every preset background
\* ---------------------------------------------------------------------
Colors == {<<0, 0, 0>>, <<255, 255, 255>>, <<200, 30, 10>>}

Grays == {0, 200, 255}

Alphas == {0, 128, 255}

\* the background presets of the settings dialog
Backgrounds == {<<0, 0, 0>>, <<255, 255, 255>>, <<128, 128, 128>>}

PixelSizes == {sz \in (1..MaxPixels) \X (1..MaxPixels) : sz[1] * sz[2] <= MaxPixels}

Palette == [n \in 0..1 |-> IF n = 0 THEN <<200, 30, 10>> ELSE <<255, 255, 255>>]

ImagesOfSize(sz) ==
    { [mode |-> "RGBA", size |-> sz, pixels |-> px]
         : px \in [1..(sz[1] * sz[2]) -> {c \o <<a>> : c \in Colors, a \in Alphas}] }
    \cup
    { [mode |-> "LA", size |-> sz, pixels |-> px]
         : px \in [1..(sz[1] * sz[2]) -> Grays \X Alphas] }
    \cup
    { [mode |-> "P", size |-> sz, pixels |-> px, palette |-> Palette, alpha |-> al]
         : px \in [1..(sz[1] * sz[2]) -> 0..1], al \in [0..1 -> Alphas] }

InitFlatten ==
    /\ IdleProcessor
    /\ arg \in [img : UNION {ImagesOfSize(sz) : sz \in PixelSizes},
                background : Backgrounds]
    /\ ret = None

CallFlatten ==
    /\ ret = None
    /\ "img" \in DOMAIN arg
    /\ ret' = Flatten(arg.img, arg.background)
    /\ UNCHANGED <<fixedVars, outputs, running, processed_files, failed_files,
                   pc, image_files, total, i, processed, skipped, failed,
                   events, calls, arg>>

NextFlatten == CallFlatten

SpecFlatten == InitFlatten /\ [][NextFlatten]_vars

\* ---------------------------------------------------------------------
\* Properties
\* ---------------------------------------------------------------------
JobSignals == {"processing_file", "log_message", "progress"}

HasSig(evs, sig) == \E k \in 1..Len(evs) : evs[k].sig = sig

CountSig(evs, sig) == Cardinality({k \in 1..Len(evs) : evs[k].sig = sig})

CountLog(evs, kind) ==
    Cardinality({k \in 1..Len(evs) : evs[k].sig = "log_message" /\ evs[k].kind = kind})

Called == "mode" \in DOMAIN ret

\* C1: whatever the placement mode, the target size and the source size,
\* the image process_image hands to save() has exactly the target size
C1_OutputHasTargetSize == Called => ret.out = arg.target

\* a crop whose rectangle is not of the target size and is resized to it
C1_Witness ==
    /\ Called
    /\ arg.mode = "auto"
    /\ ret.mode = "crop"
    /\ ret.resized
    /\ ret.cropped # arg.target
    /\ ret.out = arg.target

JobsHaveDistinctStems ==
    \A j, k \in 1..Len(image_files) :
        j # k => image_files[j].stem # image_files[k].stem

NoOutputPreexists ==
    \A k \in 1..Len(image_files) : outFiles0[image_files[k].stem] = NoFile

FailingJobs == {k \in 1..Len(image_files) : ~image_files[k].good}

\* the step in which process_image is called on a file that does not
\* decode, and the step after a job's log event: the progress event, and
\* the loop goes on to the next file
C2_FailureStep ==
    /\ (calls' # calls /\ ~image_files[i + 1].good) =>
          /\ failed' = failed + 1
          /\ processed' = processed
          /\ skipped' = skipped
          /\ events' = Append(events, LogEvent("error"))
          /\ ~HasSig(events', "error_occurred")
          /\ pc' = "progress"
    /\ (pc = "progress" /\ pc' # pc) =>
          /\ events' = Append(events, ProgressEvent)
          /\ pc' = "check"
          /\ i' = i + 1

\* the end of a run in which no pre-job check found the flag cleared, over
\* distinct stems, without earlier outputs and with exactly one failing job
C2_IsolationScenario ==
    (/\ pc = "done"
     /\ i = total
     /\ total > 0
     /\ JobsHaveDistinctStems
     /\ NoOutputPreexists
     /\ Cardinality(FailingJobs) = 1) =>
        /\ processed = total - 1
        /\ skipped = 0
        /\ failed = 1
        /\ CountSig(events, "progress") = total
        /\ \A k \in 1..total :
              image_files[k].good =>
                 /\ outFiles[image_files[k].stem].kind = "jpeg"
                 /\ outFiles[image_files[k].stem].file = image_files[k]

\* C2: a failing process_image adds exactly 1 to failed, emits one failure
\* log event and leaves the loop running; a run over N jobs with one failing
\* job ends with processed = N-1, skipped = 0, failed = 1 and N-1 outputs
C2_FailureDoesNotAbortBatch == []C2_IsolationScenario /\ [][C2_FailureStep]_vars

\* the failing job came first and the job after it was still converted
C2_Witness ==
    /\ pc = "done"
    /\ running
    /\ total >= 2
    /\ JobsHaveDistinctStems
    /\ NoOutputPreexists
    /\ FailingJobs = {1}
    /\ failed = 1
    /\ processed = total - 1
    /\ outFiles[image_files[total].stem].kind = "jpeg"

\* C3: a job whose output exists when it is reached, with overwrite off, is
\* skipped: process_image is not called, skipped grows by 1, processed and
\* failed stay, one skip log event is emitted and the output file is kept
C3_SkipStep ==
    (/\ pc = "job"
     /\ pc' # "job"
     /\ OutputExists(image_files[i + 1])
     /\ ~overwrite) =>
        /\ calls' = calls
        /\ outFiles' = outFiles
        /\ skipped' = skipped + 1
        /\ processed' = processed
        /\ failed' = failed
        /\ events' = Append(events, LogEvent("skipped"))
        /\ pc' = "progress"

C3_SkipPolicy == [][C3_SkipStep]_vars

\* a job was skipped and the file of the earlier run is still there
C3_Witness ==
    /\ skipped > 0
    /\ CountLog(events, "skipped") = skipped
    /\ \E k \in 1..i : outFiles[image_files[k].stem] = OldFile

\* the step taken when the check before job i finds self.running False,
\* and the absence of any step after the run has ended
C4_CancelStep ==
    /\ (pc = "check" /\ i < total /\ ~running) =>
          /\ pc' = "done"
          /\ events' = events
          /\ <<processed', skipped', failed'>> = <<processed, skipped, failed>>
          /\ <<processed_files', failed_files'>> = <<processed_files, failed_files>>
          /\ outFiles' = outFiles
          /\ calls' = calls
          /\ ~HasSig(events', "finished_success")
          /\ ~HasSig(events', "error_occurred")
          /\ \A k \in 1..Len(events') :
                "job" \in DOMAIN events'[k] => events'[k].job < i
    /\ pc = "done" =>
          UNCHANGED <<pc, i, events, processed, skipped, failed, processed_files,
                      failed_files, outputs, calls>>

\* C4: when the check before job i finds the flag cleared, no event is
\* emitted for job i or a later one, no counter and no output file changes,
\* and the run ends without finished_success and without error_occurred
C4_Cancellation == [][C4_CancelStep]_vars

\* a run stopped after its first job and before its last
C4_Witness ==
    /\ pc = "done"
    /\ ~running
    /\ 0 < i
    /\ i < total
    /\ processed + skipped + failed = i
    /\ ~HasSig(events, "finished_success")

FinishedEvent ==
    [sig |-> "finished_success", processed |-> processed, skipped |-> skipped,
     failed |-> failed]

\* C5 as stated: every run that handled all its jobs emits finished_success
\* exactly once, also when stop() came during or after the last job
C5_AllHandledImpliesFinished ==
    (pc = "done" /\ total > 0 /\ i = total) =>
        /\ CountSig(events, "finished_success") = 1
        /\ events[Len(events)] = FinishedEvent

StopCalled == stopPoint # None

\* stop() was not called before line 211 read the flag
RunningAtFinalTest == ~StopCalled \/ stopPoint.pc \in {"finish", "done"}

\* C5 amended: a run that handled all its jobs emits finished_success
\* exactly once, as its last event, if self.running is still True at the
\* test after the loop, and never if stop() came before that test
C5_FinishedIffStillRunning ==
    /\ CountSig(events, "finished_success") <= 1
    /\ HasSig(events, "finished_success") =>
          (pc = "done" /\ RunningAtFinalTest /\ i = total /\ total > 0)
    /\ pc = "finish" => (RunningAtFinalTest /\ i = total /\ total > 0)
    /\ (pc = "done" /\ total > 0 /\ i = total) =>
          IF RunningAtFinalTest
          THEN /\ CountSig(events, "finished_success") = 1
               /\ events[Len(events)] = FinishedEvent
          ELSE /\ ~HasSig(events, "finished_success")
               /\ ~HasSig(events, "error_occurred")

\* every job was handled, stop() came during or after the last one
C5_Witness ==
    /\ pc = "done"
    /\ total > 0
    /\ i = total
    /\ StopCalled
    /\ stopPoint.job = total - 1
    /\ CountSig(events, "progress") = total
    /\ ~HasSig(events, "finished_success")

\* C6 as stated: the k-th progress value of a run over arg.total jobs is
\* floor(k * 100 / total); the values never decrease, stay within 0..100,
\* are 100 only for the last job, and the last value of a whole run is 100
C6_ProgressIsExactFloor ==
    /\ \A k \in 1..Len(ret) : ret[k] = (k * 100) \div arg.total
    /\ \A k \in 1..Len(ret) : ret[k] \in 0..100
    /\ \A j, k \in 1..Len(ret) : j <= k => ret[j] <= ret[k]
    /\ \A k \in 1..Len(ret) : ret[k] = 100 => k = arg.total
    /\ Len(ret) = arg.total => ret[Len(ret)] = 100

NoSupportedEntry ==
    SelectSupported(entries, get_supported_formats(HAS_HEIF, HAS_RAW)) = <<>>

NoJobHandled ==
    /\ total = 0
    /\ i = 0
    /\ calls = <<>>
    /\ <<processed, skipped, failed>> = <<0, 0, 0>>
    /\ outFiles = outFiles0

ErrorEvent(kind) == [sig |-> "error_occurred", kind |-> kind]

\* C7 as stated: a missing input directory yields the single event
\* directory-not-found, a directory without supported entries the single
\* event no-supported-images-found, and nothing else happens in the run
C7_EnumerationFatalKinds ==
    /\ inputKind = "missing" =>
          /\ NoJobHandled
          /\ events = IF pc = "done" THEN <<ErrorEvent("no_input_dir")>> ELSE <<>>
    /\ (inputKind = "dir" /\ NoSupportedEntry) =>
          /\ NoJobHandled
          /\ events = IF pc = "done" THEN <<ErrorEvent("no_images")>> ELSE <<>>

\* C7 amended: as stated, except that for a directory without supported
\* entries the single error event is no-supported-images-found only when
\* the output directory could be created, and the processing error of the
\* failed creation otherwise
C7_EnumerationFatalSingleError ==
    /\ inputKind = "missing" =>
          /\ NoJobHandled
          /\ events = IF pc = "done" THEN <<ErrorEvent("no_input_dir")>> ELSE <<>>
    /\ (inputKind = "dir" /\ NoSupportedEntry) =>
          /\ NoJobHandled
          /\ events = IF pc = "done"
                      THEN <<ErrorEvent(IF outKind = "ok" THEN "no_images"
                                        ELSE "exception")>>
                      ELSE <<>>

\* a directory whose only entries have unsupported extensions was reported
C7_Witness ==
    /\ pc = "done"
    /\ inputKind = "dir"
    /\ entries # <<>>
    /\ NoSupportedEntry
    /\ events = <<ErrorEvent("no_images")>>

\* C8 as stated: error_occurred is emitted for a missing input directory
\* and for an empty job list only
C8_OnlyEnumerationFatalErrors ==
    \A k \in 1..Len(events) :
        events[k].sig = "error_occurred" =>
            events[k].kind \in {"no_input_dir", "no_images"}

\* C8 amended: error_occurred is emitted for a missing input directory,
\* for an empty job list, and for an exception of os.makedirs or
\* os.listdir before the loop; it is then the only event of the run.  A
\* failure of process_image is counted in failed and logged, never
\* reported by error_occurred
C8_RunErrorsComeFromSetupOnly ==
    /\ \A k \in 1..Len(events) :
          events[k].sig = "error_occurred" =>
             /\ events = <<events[k]>>
             /\ NoJobHandled
             /\ events[k].kind = "no_input_dir" => inputKind = "missing"
             /\ events[k].kind = "no_images" => (inputKind = "dir" /\ NoSupportedEntry)
             /\ events[k].kind = "exception" =>
                   (inputKind = "file" \/ (inputKind = "dir" /\ outKind = "uncreatable"))
             /\ events[k].kind \in {"no_input_dir", "no_images", "exception"}
    /\ failed = CountLog(events, "error")
    /\ failed = Len(failed_files)
    /\ failed > 0 => ~HasSig(events, "error_occurred")

\* a run with a failed job that ended without a run-level error
C8_Witness ==
    /\ pc = "done"
    /\ failed > 0
    /\ CountLog(events, "error") = failed
    /\ ~HasSig(events, "error_occurred")

\* C9: on the crop path an output dimension exceeds the source's only if
\* the source is smaller than the target in some dimension; a source at
\* least as large as the target in both gives the target size, which
\* exceeds the source in no dimension
C9_CropUpscalesOnlySmallSources ==
    (Called /\ ret.mode = "crop") =>
        /\ (ret.out[1] > arg.src[1] \/ ret.out[2] > arg.src[2]) =>
              (arg.src[1] < arg.target[1] \/ arg.src[2] < arg.target[2])
        /\ (arg.src[1] >= arg.target[1] /\ arg.src[2] >= arg.target[2]) =>
              /\ ret.out = arg.target
              /\ ret.out[1] <= arg.src[1]
              /\ ret.out[2] <= arg.src[2]

\* the crop path enlarged a source that is narrower than the target
C9_Witness ==
    /\ Called
    /\ ret.mode = "crop"
    /\ ret.resized
    /\ arg.src[1] < arg.target[1]
    /\ ret.out[1] > arg.src[1]

\* C10: on the fit path the pasted image is no wider than the source and
\* the target and no higher than the source and the target, and a source
\* inside the target box is pasted at its own size
C10_FitNeverUpscales ==
    (Called /\ ret.mode = "fit") =>
        /\ ret.thumb[1] <= Min2(arg.src[1], arg.target[1])
        /\ ret.thumb[2] <= Min2(arg.src[2], arg.target[2])
        /\ (arg.src[1] <= arg.target[1] /\ arg.src[2] <= arg.target[2]) =>
              ret.thumb = arg.src

\* a source larger than the target box was shrunk into it
C10_Witness ==
    /\ Called
    /\ ret.mode = "fit"
    /\ arg.src[1] > arg.target[1]
    /\ ret.thumb[1] = arg.target[1]
    /\ ret.thumb[2] < arg.src[2]

Abs(n) == IF n < 0 THEN 0 - n ELSE n

\* C11 as stated: auto mode takes the crop path exactly when
\* |w/h - tw/th| / (tw/th) < 0.2, that is 5 * |w*th - h*tw| < h*tw, and the
\* fit path otherwise, the boundary included; the choice is a function of
\* the two ratios alone
C11_AutoThresholdExact ==
    (Called /\ arg.mode = "auto") =>
        (ret.mode = "crop" <=>
            5 * Abs(arg.src[1] * arg.target[2] - arg.src[2] * arg.target[1])
                < arg.src[2] * arg.target[1])

Flattened == "pixels" \in DOMAIN ret

\* colour and alpha of pixel k of the decoded image
SourceColor(img, k) ==
    CASE img.mode = "RGBA" -> <<img.pixels[k][1], img.pixels[k][2], img.pixels[k][3]>>
      [] img.mode = "LA"   -> <<img.pixels[k][1], img.pixels[k][1], img.pixels[k][1]>>
      [] img.mode = "P"    -> img.palette[img.pixels[k]]

SourceAlpha(img, k) ==
    CASE img.mode = "RGBA" -> img.pixels[k][4]
      [] img.mode = "LA"   -> img.pixels[k][2]
      [] img.mode = "P"    -> img.alpha[img.pixels[k]]

\* C12 as stated: the flattened image of an RGBA, LA or P image is RGB of
\* the image's own size, each fully transparent pixel has the background
\* colour and each fully opaque pixel its source colour
C12_FlattenTransparency ==
    Flattened =>
        /\ ret.mode = "RGB"
        /\ ret.size = arg.img.size
        /\ Len(ret.pixels) = arg.img.size[1] * arg.img.size[2]
        /\ \A k \in 1..Len(ret.pixels) :
              /\ SourceAlpha(arg.img, k) = 0 => ret.pixels[k] = arg.background
              /\ SourceAlpha(arg.img, k) = 255 => ret.pixels[k] = SourceColor(arg.img, k)

\* the jobs of the run that write to <stem>.jpg and decode
GoodJobsOfStem(stem) ==
    {k \in 1..Len(image_files) : image_files[k].stem = stem /\ image_files[k].good}

Colliding(stem) == Cardinality(GoodJobsOfStem(stem)) >= 2

FirstOf(S) == CHOOSE k \in S : \A j \in S : k <= j

LastOf(S) == CHOOSE k \in S : \A j \in S : j <= k

RunHandledAllJobs == pc = "done" /\ total > 0 /\ i = total

\* C13 as stated: when two decodable jobs of a run write to the same path
\* and no such file existed before the run, both are converted and the
\* file holds the result of the job enumerated later
C13_LastIterationWins ==
    RunHandledAllJobs =>
        \A stem \in Stems :
            (Colliding(stem) /\ outFiles0[stem] = NoFile) =>
                /\ outFiles[stem].kind = "jpeg"
                /\ outFiles[stem].file = image_files[LastOf(GoodJobsOfStem(stem))]

\* C13 amended: the existence test is made when a job is reached.  With
\* overwrite on, every colliding job is converted and the file holds the
\* result of the last one; with overwrite off, the first one is converted
\* if no file existed before the run and every later one is skipped, and
\* a file that existed before the run is kept with all of them skipped
C13_CollisionFollowsOverwrite ==
    RunHandledAllJobs =>
        \A stem \in Stems :
            Colliding(stem) =>
                IF overwrite
                THEN /\ outFiles[stem].kind = "jpeg"
                     /\ outFiles[stem].file = image_files[LastOf(GoodJobsOfStem(stem))]
                     /\ \A k \in GoodJobsOfStem(stem) :
                           \E n \in 1..Len(calls) : calls[n].job = k - 1
                ELSE IF outFiles0[stem] = NoFile
                THEN /\ outFiles[stem].kind = "jpeg"
                     /\ outFiles[stem].file = image_files[FirstOf(GoodJobsOfStem(stem))]
                     /\ \A k \in GoodJobsOfStem(stem) :
                           (\E n \in 1..Len(calls) : calls[n].job = k - 1)
                              <=> k = FirstOf(GoodJobsOfStem(stem))
                ELSE /\ outFiles[stem] = OldFile
                     /\ \A k \in GoodJobsOfStem(stem) :
                           \A n \in 1..Len(calls) : calls[n].job # k - 1

\* two files of one stem, overwrite off, nothing there before the run: the
\* first was converted, the second skipped
C13_Witness ==
    /\ RunHandledAllJobs
    /\ ~overwrite
    /\ Colliding("a")
    /\ outFiles0["a"] = NoFile
    /\ outFiles["a"].kind = "jpeg"
    /\ outFiles["a"].file = image_files[FirstOf(GoodJobsOfStem("a"))]
    /\ processed = 1
    /\ skipped = 1

\* a run over a non-empty job list that ended after a test of the flag
\* found it cleared
Cancelled == pc = "done" /\ total > 0 /\ ~HasSig(events, "finished_success")

\* the counters of run() when it returned
RunCounters == [processed |-> processed, skipped |-> skipped, failed |-> failed]

\* C14 as stated: after a cancelled run the object still gives the caller
\* the processed, the skipped and the failed count of the jobs handled
C14_AllCountersRetained ==
    Cancelled =>
        \A c \in {"processed", "skipped", "failed"} :
            /\ c \in DOMAIN RetainedCounts
            /\ RetainedCounts[c] = RunCounters[c]

\* C14 amended: after a cancelled run the object gives the caller the
\* processed and the failed count of the jobs handled before the stop was
\* observed, as the lengths of processed_files and failed_files, and the
\* jobs not accounted for by the two lists are the skipped ones
C14_ProcessedAndFailedRetained ==
    Cancelled =>
        /\ \A c \in {"processed", "failed"} :
              /\ c \in DOMAIN RetainedCounts
              /\ RetainedCounts[c] = RunCounters[c]
        /\ processed + skipped + failed = i
        /\ skipped = i - RetainedCounts["processed"] - RetainedCounts["failed"]

\* a run cancelled after a converted job, whose file is on the object
C14_Witness ==
    /\ Cancelled
    /\ i < total
    /\ processed = 1
    /\ RetainedCounts["processed"] = 1
    /\ processed_files = <<image_files[1]>>

\* the events emitted since stop() was called
EventsSinceStop == SubSeq(events, stopPoint.events + 1, Len(events))

\* after stop(): every job event is of the job that had passed its check
\* when stop() was called, at most one event of each kind, and only those
\* that job had not emitted yet; finished_success only if line 211 had
\* read the flag before the call
C15_AtMostInFlightJob ==
    StopCalled =>
        /\ ~running
        /\ i <= stopPoint.job + 1
        /\ stopPoint.pc \in {"start", "check", "finish", "done"} => i = stopPoint.job
        /\ \A k \in 1..Len(EventsSinceStop) :
              "job" \in DOMAIN EventsSinceStop[k] =>
                  EventsSinceStop[k].job = stopPoint.job
        /\ \A sig \in JobSignals \cup {"finished_success", "error_occurred"} :
              CountSig(EventsSinceStop, sig) <= 1
        /\ HasSig(EventsSinceStop, "processing_file") => stopPoint.pc = "announce"
        /\ HasSig(EventsSinceStop, "log_message") => stopPoint.pc \in {"announce", "job"}
        /\ HasSig(EventsSinceStop, "progress") =>
              stopPoint.pc \in {"announce", "job", "progress"}
        /\ HasSig(EventsSinceStop, "finished_success") => stopPoint.pc = "finish"
        /\ HasSig(EventsSinceStop, "error_occurred") => stopPoint.pc = "start"

\* a pre-job check made after stop() ends the loop
C15_CheckAfterStop ==
    (StopCalled /\ pc = "check") =>
        (pc' = "done" /\ events' = events /\ calls' = calls /\ i' = i)

\* C15: once stop() has been called at most one further job, the one that
\* had passed its pre-job check, reaches its log and progress events, no
\* job is started by a pre-job check made after the call, and the run
\* terminates
C15_BoundedCancellation ==
    /\ []C15_AtMostInFlightJob
    /\ [][C15_CheckAfterStop]_vars
    /\ (StopCalled ~> pc = "done")

\* stop() came between the check of a job and its announcement: that job
\* emitted its three events, a later job was left alone and the run ended
C15_Witness ==
    /\ StopCalled
    /\ stopPoint.pc = "announce"
    /\ pc = "done"
    /\ i = stopPoint.job + 1
    /\ i < total
    /\ Len(EventsSinceStop) = 3
    /\ ~HasSig(events, "finished_success")

Counters == <<processed, skipped, failed>>

InLoop == pc \in {"check", "announce", "job", "progress"}

\* the job whose counter is already added and whose progress is still due
Counted == IF pc = "progress" THEN 1 ELSE 0

\* the counters over one step of a run
C16_CounterStep ==
    /\ (pc = "start" /\ pc' = "check") => Counters' = <<0, 0, 0>>
    /\ InLoop =>
          /\ processed' \in {processed, processed + 1}
          /\ skipped' \in {skipped, skipped + 1}
          /\ failed' \in {failed, failed + 1}
          /\ processed' + skipped' + failed' <= processed + skipped + failed + 1
          /\ Counters' # Counters => (pc = "job" /\ pc' = "progress")
          /\ i' # i => (pc = "progress" /\ pc' = "check" /\ i' = i + 1)
    /\ ~InLoop /\ pc' # "check" => Counters' = Counters

\* the counters of a run count the jobs of that run only
C16_CountersOfThisRun ==
    (InLoop \/ (pc \in {"finish", "done"} /\ HasSig(events, "processing_file"))) =>
        /\ processed = CountLog(events, "processed")
        /\ skipped = CountLog(events, "skipped")
        /\ failed = CountLog(events, "error")
        /\ processed + skipped + failed = i + Counted

\* C16: in every run the counters are 0 when the loop is entered, never
\* decrease, change only in the loop body and by at most 1 in total per
\* handled job, and count nothing of the run before
C16_CountersPerRun == []C16_CountersOfThisRun /\ [][C16_CounterStep]_vars

\* a rerun in its loop, counting from 0 after a run that counted jobs
C16_Witness ==
    /\ prevRun # None
    /\ prevRun.counters[1] + prevRun.counters[2] + prevRun.counters[3] > 0
    /\ pc = "check"
    /\ i = 1
    /\ processed + skipped + failed = 1

RerunCompleted ==
    /\ prevRun # None
    /\ prevRun.finished
    /\ pc = "done"
    /\ HasSig(events, "finished_success")

\* C17: when a run and its rerun over the same directories and settings both
\* complete with overwrite on, the output files and their contents after
\* the rerun are those after the first run, and both runs report the same
\* processed, skipped and failed counts, with skipped = 0
C17_RerunIdempotent ==
    (RerunCompleted /\ overwrite /\ RunSettings = prevRun.settings) =>
        /\ outFiles = prevRun.outFiles
        /\ Counters = prevRun.counters
        /\ skipped = 0
        /\ events[Len(events)] = FinishedEvent

\* a completed rerun with overwrite on that converted again the file the
\* first run had written
C17_Witness ==
    /\ RerunCompleted
    /\ overwrite
    /\ RunSettings = prevRun.settings
    /\ processed > 0
    /\ prevRun.counters[1] = processed
    /\ outFiles0[image_files[1].stem].kind = "jpeg"
    /\ outFiles[image_files[1].stem].kind = "jpeg"

Supported == get_supported_formats(HAS_HEIF, HAS_RAW)

Enumerated == pc # "start" /\ inputKind = "dir" /\ outKind = "ok"

IsJob(f) == \E k \in 1..Len(image_files) : image_files[k] = f

\* the files that occur in an event, a process_image call or a result list
FilesTouched ==
    {events[k].file : k \in {n \in 1..Len(events) : "file" \in DOMAIN events[n]}}
    \cup {calls[k].file : k \in 1..Len(calls)}
    \cup {processed_files[k] : k \in 1..Len(processed_files)}
    \cup {failed_files[k] : k \in 1..Len(failed_files)}

\* C18: the supported set has the eight raster extensions, the three HEIF
\* extensions exactly when HAS_HEIF and the eight RAW extensions exactly when
\* HAS_RAW; a directory entry is a job exactly when its lower-cased extension
\* is in the set, and no other file is announced, converted or counted
C18_SupportedSetDecidesJobs ==
    /\ {".jpg", ".jpeg", ".png", ".bmp", ".tiff", ".tif", ".webp", ".gif"} \subseteq Supported
    /\ \A e \in {".heif", ".heic", ".hif"} : e \in Supported <=> HAS_HEIF
    /\ \A e \in {".cr2", ".cr3", ".nef", ".arw", ".dng", ".raf", ".orf", ".rw2"} :
          e \in Supported <=> HAS_RAW
    /\ Cardinality(Supported) = 8 + (IF HAS_HEIF THEN 3 ELSE 0) + (IF HAS_RAW THEN 8 ELSE 0)
    /\ Enumerated =>
          \A j \in 1..Len(entries) :
              IsJob(entries[j]) <=> Lower(entries[j].ext) \in Supported
    /\ \A f \in FilesTouched :
          /\ Lower(f.ext) \in Supported
          /\ f.ext \in {".heic"} => HAS_HEIF
          /\ f.ext \in {".cr2"} => HAS_RAW

\* without rawpy a listing with a RAW file and an upper-case .JPG was run: the
\* RAW file was no job and nothing failed
C18_Witness ==
    /\ ~HAS_RAW
    /\ pc = "done"
    /\ \E j \in 1..Len(entries) : entries[j].ext = ".cr2" /\ ~IsJob(entries[j])
    /\ \E j \in 1..Len(entries) : entries[j].ext = ".JPG" /\ IsJob(entries[j])
    /\ failed = 0
    /\ processed + skipped = 1

FitCalled == Called /\ ret.mode = "fit"

\* C19: on the fit path the image is pasted at
\* (floor((tw - sw) / 2), floor((th - sh) / 2)); both offsets are >= 0, the
\* pasted rectangle lies inside the canvas, every canvas pixel outside it
\* is background and every pixel inside it is image; 1200x1200 on 480x800
\* is scaled to 480x480 and pasted at (0, 160)
C19_FitCentred ==
    FitCalled =>
        /\ 2 * ret.offset[1] <= arg.target[1] - ret.thumb[1]
        /\ arg.target[1] - ret.thumb[1] <= 2 * ret.offset[1] + 1
        /\ 2 * ret.offset[2] <= arg.target[2] - ret.thumb[2]
        /\ arg.target[2] - ret.thumb[2] <= 2 * ret.offset[2] + 1
        /\ ret.offset[1] >= 0
        /\ ret.offset[2] >= 0
        /\ ret.offset[1] + ret.thumb[1] <= arg.target[1]
        /\ ret.offset[2] + ret.thumb[2] <= arg.target[2]
        /\ ret.out = arg.target
        /\ Cardinality({p \in (0..(ret.out[1] - 1)) \X (0..(ret.out[2] - 1)) :
                           CanvasPixel(ret, p[1], p[2]) = "image"})
              = ret.thumb[1] * ret.thumb[2]
        /\ \A x \in 0..(ret.out[1] - 1), y \in 0..(ret.out[2] - 1) :
              (\/ x < ret.offset[1] \/ x >= ret.offset[1] + ret.thumb[1]
               \/ y < ret.offset[2] \/ y >= ret.offset[2] + ret.thumb[2])
                 => CanvasPixel(ret, x, y) = "background"
        /\ (arg.src = <<1200, 1200>> /\ arg.target = <<480, 800>>) =>
              (ret.thumb = <<480, 480>> /\ ret.offset = <<0, 160>>)

\* the 1200x1200 photograph on the 480x800 canvas
C19_Witness ==
    /\ FitCalled
    /\ arg.src = <<1200, 1200>>
    /\ arg.target = <<480, 800>>
    /\ ret.thumb = <<480, 480>>
    /\ ret.offset = <<0, 160>>
    /\ CanvasPixel(ret, 0, 159) = "background"
    /\ CanvasPixel(ret, 0, 160) = "image"

CropCalled == Called /\ ret.mode = "crop"

\* C20: on the crop path, for the downscaled image (w, h), left =
\* max(0, floor((w - tw) / 2)), top = max(0, floor((h - th) / 2)), right =
\* min(w, left + tw), bottom = min(h, top + th); 0 <= left < right <= w and
\* 0 <= top < bottom <= h, the rectangle has size (min(w, tw), min(h, th)),
\* and the margins on opposite sides differ by at most 1; 480x1600 on
\* 480x800 gives (0, 400, 480, 1200)
C20_CropRectangle ==
    CropCalled =>
        \E w \in {ret.thumb[1]}, h \in {ret.thumb[2]},
           tw \in {arg.target[1]}, th \in {arg.target[2]},
           left \in {ret.box[1]}, top \in {ret.box[2]},
           right \in {ret.box[3]}, bottom \in {ret.box[4]} :
            /\ left = (IF w > tw THEN (w - tw) \div 2 ELSE 0)
            /\ top = (IF h > th THEN (h - th) \div 2 ELSE 0)
            /\ right = (IF left + tw < w THEN left + tw ELSE w)
            /\ bottom = (IF top + th < h THEN top + th ELSE h)
            /\ 0 <= left /\ left < right /\ right <= w
            /\ 0 <= top /\ top < bottom /\ bottom <= h
            /\ right - left = (IF w < tw THEN w ELSE tw)
            /\ bottom - top = (IF h < th THEN h ELSE th)
            /\ ret.cropped = <<right - left, bottom - top>>
            /\ Abs(left - (w - right)) <= 1
            /\ Abs(top - (h - bottom)) <= 1
            /\ (arg.src = <<480, 1600>> /\ arg.target = <<480, 800>>) =>
                  /\ ret.thumb = <<480, 1600>>
                  /\ ret.box = <<0, 400, 480, 1200>>

\* the 480x1600 photograph: 400 rows are discarded at the top and 400 at
\* the bottom
C20_Witness ==
    /\ CropCalled
    /\ arg.src = <<480, 1600>>
    /\ arg.target = <<480, 800>>
    /\ ret.box = <<0, 400, 480, 1200>>
    /\ ret.box[2] = ret.thumb[2] - ret.box[4]
    /\ ret.out = <<480, 800>>

\* C21 as stated: after the downscale step of the crop path the image is at
\* most 2*tw wide and 2*th high, and at least as wide or at least as high
\* as the target, whatever the source size
C21_DownscaleReachesTarget ==
    CropCalled =>
        /\ ret.thumb[1] <= 2 * arg.target[1]
        /\ ret.thumb[2] <= 2 * arg.target[2]
        /\ (ret.thumb[1] >= arg.target[1] \/ ret.thumb[2] >= arg.target[2])

\* C21 amended: the downscaled image is at most 2*tw wide and 2*th high
\* and no larger than the source; it is at least as wide or at least as
\* high as the target when the source is, and it is the source itself, so
\* smaller than the target in both dimensions, when the source is smaller
\* than the target in both
C21_DownscaleKeepsSmallSources ==
    CropCalled =>
        /\ ret.thumb[1] <= 2 * arg.target[1]
        /\ ret.thumb[2] <= 2 * arg.target[2]
        /\ ret.thumb[1] <= arg.src[1]
        /\ ret.thumb[2] <= arg.src[2]
        /\ (arg.src[1] >= arg.target[1] \/ arg.src[2] >= arg.target[2]) =>
              (ret.thumb[1] >= arg.target[1] \/ ret.thumb[2] >= arg.target[2])
        /\ (arg.src[1] < arg.target[1] /\ arg.src[2] < arg.target[2]) =>
              ret.thumb = arg.src

\* a source beyond the doubled box was shrunk onto its width and is still
\* at least as wide as the target
C21_Witness ==
    /\ CropCalled
    /\ arg.src[1] > 2 * arg.target[1]
    /\ ret.thumb[1] = 2 * arg.target[1]
    /\ ret.thumb[2] < arg.src[2]
    /\ ret.thumb[2] < arg.target[2]

\* the signal at place n (0, 1, 2) of a job's three events
SignalAt(n) ==
    CASE n = 0 -> "processing_file"
      [] n = 1 -> "log_message"
      [] n = 2 -> "progress"

\* C22: the events of a run are, job after job in enumeration order, the
\* current-file event, one log event and one progress event of that job,
\* with nothing of a later job before the progress event of an earlier
\* one; process_image is called for one job at a time in that order; and
\* finished_success, when emitted, comes right after the progress event of
\* the last job
C22_EventsInJobOrder ==
    /\ \A k \in 1..Len(events) :
          events[k].sig \in JobSignals =>
             /\ events[k].sig = SignalAt((k - 1) % 3)
             /\ events[k].job = (k - 1) \div 3
             /\ events[k].job < total
             /\ events[k].sig # "progress" =>
                   events[k].file = image_files[events[k].job + 1]
    /\ InLoop =>
          /\ Len(events) = 3 * i + (CASE pc = "job" -> 1 [] pc = "progress" -> 2
                                       [] OTHER -> 0)
          /\ \A k \in 1..Len(events) : events[k].sig \in JobSignals
    /\ \A k \in 1..Len(events) :
          events[k].sig = "finished_success" =>
             /\ k = Len(events)
             /\ k = 3 * total + 1
             /\ events[k - 1].sig = "progress"
             /\ events[k - 1].job = total - 1
    /\ \A m, n \in 1..Len(calls) : m < n => calls[m].job < calls[n].job

\* a run over two jobs that ended with finished_success as seventh event
C22_Witness ==
    /\ pc = "done"
    /\ total = 2
    /\ Len(events) = 7
    /\ events[1].sig = "processing_file"
    /\ events[3].sig = "progress"
    /\ events[4].sig = "processing_file"
    /\ events[4].job = 1
    /\ events[7].sig = "finished_success"

\* the counters against the jobs handled, the progress events and the lists
C23_CountersMatchJobs ==
    /\ processed + skipped + failed = i + Counted
    /\ CountSig(events, "progress") = i
    /\ i <= total
    /\ Len(processed_files) = processed
    /\ Len(failed_files) = failed
    /\ \A k \in 1..Len(events) :
          events[k].sig = "finished_success" =>
             events[k].processed + events[k].skipped + events[k].failed = total

\* a handled job adds 1 to exactly one counter and nothing to the others,
\* before its progress event; nothing else changes a counter
C23_OneCounterPerJob ==
    /\ (pc = "job" /\ pc' # pc) =>
          /\ pc' = "progress"
          /\ \E c \in 1..3 :
                /\ Counters'[c] = Counters[c] + 1
                /\ \A d \in (1..3) \ {c} : Counters'[d] = Counters[d]
    /\ Counters' # Counters => pc = "job"
    /\ i' # i => (pc = "progress" /\ i' = i + 1)

\* C23: at every point of a run processed + skipped + failed is the number
\* of jobs handled and of progress events emitted, each handled job adds 1
\* to exactly one counter, the lengths of processed_files and failed_files
\* are processed and failed, and the counts of finished_success add up to
\* the number of enumerated jobs
C23_CounterInvariant == []C23_CountersMatchJobs /\ [][C23_OneCounterPerJob]_vars

\* a finished run that converted one job and counted another as failed
C23_Witness ==
    /\ pc = "done"
    /\ total = 2
    /\ processed = 1
    /\ failed = 1
    /\ Len(processed_files) = 1
    /\ Len(failed_files) = 1
    /\ CountSig(events, "progress") = 2
    /\ events[Len(events)] = FinishedEvent
====
